---- MODULE Spec2Model ----
(***************************************************************************)
(* A model of server.py: the directory lookups, the CC merge and the       *)
(* streaming relay of /process_feedback, and the subject extraction and    *)
(* delivery strategies of /open_outlook.                                   *)
(*                                                                         *)
(* Text is modelled as a sequence of pieces.  For the CC merge and the     *)
(* department names a piece is one character; for the HTML body a piece is *)
(* one lexical unit (a tag, the word "Subject:", one blank, a run of       *)
(* text), none of which contains a part of another.                        *)
(***************************************************************************)
EXTENDS Naturals, Sequences, FiniteSets

VARIABLES
    client,                 \* "None" or "OpenAI": the module-level client
    OUTLOOK_AVAILABLE,      \* whether win32com/pythoncom were imported
    pc,                     \* position of the request being served
    request,                \* <<method, path>> of the request being served
    response,               \* the response returned by a view function
    assignee_cc_str,        \* data['assignee_cc']
    service_adviser_email,  \* data['service_adviser_email']
    cc_list,                \* the merged CC list
    cc_again,               \* cc_list with the adviser email merged in once more
    calls,                  \* number of client.chat.completions.create calls
    received,               \* delta contents read from the provider stream
    content,                \* the content the generator is about to yield
    out,                    \* fragments the generator has yielded
    staff,                  \* staff_data.csv as it is on disk
    dept,                   \* request.args.get('department')
    body_in,                \* data['html_body'] as received
    cc_email,               \* data['cc']
    subject,                \* subject of the message
    html_body,              \* body of the message after the cleanup
    attempts,               \* delivery methods entered, in order
    eml                     \* header lines written to the .eml file

vars == <<client, OUTLOOK_AVAILABLE, pc, request, response, assignee_cc_str,
          service_adviser_email, cc_list, cc_again, calls, received, content, out,
          staff, dept, body_in, cc_email, subject, html_body, attempts, eml>>

relayVars == <<calls, received, content, out>>
ccVars    == <<assignee_cc_str, service_adviser_email, cc_list, cc_again>>
dirVars   == <<staff, dept>>
mailVars  == <<body_in, cc_email, subject, html_body, attempts, eml>>

----------------------------------------------------------------------------
(* Bounds *)

MaxChunks  == 3     \* chunks one provider stream delivers
MaxCcLen   == 3     \* characters of the assignee CC string
MaxAdvLen  == 2     \* characters of the adviser email
MaxRows    == 3     \* rows of staff_data.csv
MaxBodyLen == 4     \* pieces of an enumerated HTML body

----------------------------------------------------------------------------
(* Helpers on sequences *)

None == "<None>"            \* Python's None; no text equals it

NoResponse == [status |-> 0, kind |-> "none", body |-> <<>>]

RECURSIVE SeqsUpTo(_, _)
SeqsUpTo(S, n) ==
    IF n = 0 THEN {<<>>}
    ELSE LET shorter == SeqsUpTo(S, n - 1)
         IN  shorter \cup {Append(s, x) : s \in {t \in shorter : Len(t) = n - 1}, x \in S}

Range(s) == {s[i] : i \in 1..Len(s)}

\* the injective sequences over S that list all of it
Enumerations(S) ==
    {q \in SeqsUpTo(S, Cardinality(S)) : Len(q) = Cardinality(S) /\ Range(q) = S}

\* the parts of the state a specification does not use
NoFeedback ==
    /\ assignee_cc_str = <<>>
    /\ service_adviser_email = <<>>
    /\ cc_list = <<>>
    /\ cc_again = <<>>

NoRelay ==
    /\ calls = 0
    /\ received = <<>>
    /\ content = None
    /\ out = <<>>

NoDirectory ==
    /\ staff = [exists |-> FALSE, rows |-> <<>>]
    /\ dept = <<>>

NoMail ==
    /\ body_in = <<>>
    /\ cc_email = ""
    /\ subject = <<>>
    /\ html_body = <<>>
    /\ attempts = <<>>
    /\ eml = <<>>


----------------------------------------------------------------------------
(* The directory store, lines 46-81 *)

\* Names are sequences of characters, ordered as Python orders str: by code
\* point, a proper prefix first.
Ord(c) == CASE c = "P" -> 80 [] c = "S" -> 83 [] c = "X" -> 88
            [] c = "a" -> 97 [] c = "e" -> 101

RECURSIVE StrLess(_, _)
StrLess(x, y) ==
    IF y = <<>> THEN FALSE
    ELSE IF x = <<>> THEN TRUE
    ELSE IF Head(x) # Head(y) THEN Ord(Head(x)) < Ord(Head(y))
    ELSE StrLess(Tail(x), Tail(y))

Departments == {<<"P">>, <<"S">>, <<"S", "a">>, <<"S", "e">>}
StaffNames  == {"Ann", "Bob"}
EmailOf(n)  == IF n = "Ann" THEN "ann@x" ELSE "bob@x"
CcOf(n)     == IF n = "Ann" THEN "" ELSE "c@x"

\* a row as csv.DictReader gives it: a mapping from the header's columns
RowsWithCc ==
    {[Department |-> d, Name |-> n, Email |-> EmailOf(n), CC_Emails |-> CcOf(n)] :
        d \in Departments, n \in StaffNames}

RowsWithoutCc ==
    {[Department |-> d, Name |-> n, Email |-> EmailOf(n)] :
        d \in Departments, n \in StaffNames}

StaffFiles ==
    {[exists |-> FALSE, rows |-> <<>>]}
    \cup {[exists |-> TRUE, rows |-> r] : r \in SeqsUpTo(RowsWithCc, MaxRows)}
    \cup {[exists |-> TRUE, rows |-> r] : r \in SeqsUpTo(RowsWithoutCc, MaxRows)}

\* request.args.get('department'): a name, or None when the argument is missing
DeptNone == <<None>>
DeptArgs == Departments \cup {<<"X">>, DeptNone}

\* lines 50-58
get_csv_data(file) == IF file.exists THEN file.rows ELSE <<>>

\* row.get(key, default)
RowGet(row, key, default) == IF key \in DOMAIN row THEN row[key] ELSE default

\* sorted(): insertion into an ascending list
RECURSIVE Insert(_, _)
Insert(x, sorted) ==
    IF sorted = <<>> THEN <<x>>
    ELSE IF StrLess(Head(sorted), x) THEN <<Head(sorted)>> \o Insert(x, Tail(sorted))
    ELSE <<x>> \o sorted

\* a slip: the list is returned in the order the set happened to give
SortedMissing(list) == list

RECURSIVE Sorted(_)
Sorted(list) == IF list = <<>> THEN <<>> ELSE Insert(Head(list), Sorted(Tail(list)))

\* set(row['Department'] for row in data)
DepartmentSet(data) == {data[i].Department : i \in 1..Len(data)}

\* a slip: every row is returned, whatever its department
MatchingAll(data, d) == data

\* [... for row in data if row['Department'] == dept], lines 73-80
RECURSIVE Matching(_, _)
Matching(data, d) ==
    IF data = <<>> THEN <<>>
    ELSE IF Head(data).Department = d
         THEN <<Head(data)>> \o Matching(Tail(data), d)
         ELSE Matching(Tail(data), d)

\* lines 74-78
Projection(row) ==
    [name |-> row.Name, email |-> row.Email, cc |-> RowGet(row, "CC_Emails", "")]

Assignees(data, d) ==
    LET m == Matching(data, d) IN [i \in 1..Len(m) |-> Projection(m[i])]

InitDir ==
    /\ client = "None"
    /\ OUTLOOK_AVAILABLE = FALSE
    /\ pc = "idle"
    /\ request = <<"", "">>
    /\ response = NoResponse
    /\ staff \in StaffFiles
    /\ dept = <<>>
    /\ NoFeedback /\ NoRelay /\ NoMail

\* lines 60-65; the order in which list(set(...)) gives the names is unspecified
get_departments ==
    /\ pc = "idle"
    /\ request' = <<"GET", "/api/departments">>
    /\ \E order \in Enumerations(DepartmentSet(get_csv_data(staff))) :
         response' = [status |-> 200, kind |-> "json", body |-> Sorted(order)]
    /\ pc' = "responded"
    /\ UNCHANGED <<client, OUTLOOK_AVAILABLE, ccVars, relayVars, dirVars, mailVars>>

\* lines 67-81
get_assignees ==
    /\ pc = "idle"
    /\ request' = <<"GET", "/api/assignees">>
    /\ \E d \in DeptArgs :
         /\ dept' = d
         /\ response' = [status |-> 200, kind |-> "json",
                         body |-> Assignees(get_csv_data(staff), d)]
    /\ pc' = "responded"
    /\ UNCHANGED <<client, OUTLOOK_AVAILABLE, ccVars, relayVars, staff, mailVars>>

\* the response is sent; the next request finds the file as it is
DirectoryDone ==
    /\ pc = "responded"
    /\ pc' = "idle"
    /\ request' = <<"", "">>
    /\ response' = NoResponse
    /\ dept' = <<>>
    /\ UNCHANGED <<client, OUTLOOK_AVAILABLE, ccVars, relayVars, staff, mailVars>>

NextDir == get_departments \/ get_assignees \/ DirectoryDone

SpecDir == InitDir /\ [][NextDir]_vars

----------------------------------------------------------------------------
(* /process_feedback: the CC merge, lines 108-114 *)

CcChars  == {"a", "b", " ", ";"}

\* str.strip(): drop the blanks at both ends
RECURSIVE LStrip(_)
LStrip(s) == IF s # <<>> /\ Head(s) = " " THEN LStrip(Tail(s)) ELSE s

RECURSIVE RStrip(_)
RStrip(s) ==
    IF s # <<>> /\ s[Len(s)] = " " THEN RStrip(SubSeq(s, 1, Len(s) - 1)) ELSE s

Strip(s) == RStrip(LStrip(s))

\* str.split(';'): the pieces between the separators, empty ones included
RECURSIVE SplitFrom(_, _, _)
SplitFrom(s, i, cur) ==
    IF i > Len(s) THEN <<cur>>
    ELSE IF s[i] = ";" THEN <<cur>> \o SplitFrom(s, i + 1, <<>>)
    ELSE SplitFrom(s, i + 1, Append(cur, s[i]))

Split(s) == SplitFrom(s, 1, <<>>)

\* line 109: [email.strip() for email in assignee_cc_str.split(';') if email.strip()]
RECURSIVE StripAll(_)
StripAll(parts) ==
    IF parts = <<>> THEN <<>>
    ELSE IF Strip(Head(parts)) # <<>>
         THEN <<Strip(Head(parts))>> \o StripAll(Tail(parts))
         ELSE StripAll(Tail(parts))

SplitCc(s) == StripAll(Split(s))

\* a plausible slip: the adviser is appended without the membership test
AppendAdviserNoDedup(list, adviser) ==
    IF adviser # <<>> THEN Append(list, adviser) ELSE list

\* lines 111-112
AppendAdviser(list, adviser) ==
    IF adviser # <<>> /\ adviser \notin Range(list)
    THEN Append(list, adviser) ELSE list

MergeCc(cc_str, adviser) == AppendAdviser(SplitCc(cc_str), adviser)

InitCc ==
    /\ client = "None"
    /\ OUTLOOK_AVAILABLE = FALSE
    /\ pc = "cc_start"
    /\ request = <<"POST", "/process_feedback">>
    /\ response = NoResponse
    /\ assignee_cc_str \in SeqsUpTo(CcChars, MaxCcLen)
    /\ service_adviser_email \in SeqsUpTo(CcChars, MaxAdvLen)
    /\ cc_list = <<>>
    /\ cc_again = <<>>
    /\ NoRelay /\ NoDirectory /\ NoMail

\* lines 109-112 applied to the request's two fields
ApplyMerge ==
    /\ pc = "cc_start"
    /\ cc_list' = MergeCc(assignee_cc_str, service_adviser_email)
    /\ pc' = "cc_merged"
    /\ UNCHANGED <<client, OUTLOOK_AVAILABLE, request, response, assignee_cc_str,
                   service_adviser_email, cc_again, relayVars, dirVars, mailVars>>

\* lines 111-112 applied to the merged list again
ApplyMergeAgain ==
    /\ pc = "cc_merged"
    /\ cc_again' = AppendAdviser(cc_list, service_adviser_email)
    /\ pc' = "cc_again"
    /\ UNCHANGED <<client, OUTLOOK_AVAILABLE, request, response, assignee_cc_str,
                   service_adviser_email, cc_list, relayVars, dirVars, mailVars>>

NextCc == ApplyMerge \/ ApplyMergeAgain

SpecCc == InitCc /\ [][NextCc]_vars

----------------------------------------------------------------------------
(* /process_feedback: generate(), lines 204-222 *)

ConfigErrorText ==
    "Error: OpenAI/Google API key not configured on server. Set GOOGLE_API_KEY or OPENAI_API_KEY in .env"

Texts      == {"a", "b"}
Contents   == {None, ""} \cup Texts       \* chunk.choices[0].delta.content
Exceptions == {"timeout", "quota"}        \* str(e) of what the try block may raise

ErrorFragment(e) == "Error: " \o e

\* `if content:` is false for None and for the empty string
Truthy(c) == c # None /\ c # ""

\* the CC inputs a feedback request carries in this specification
RelayCcInputs == {<<"a", ";", "b">>, <<>>}
RelayAdvisers == {<<"b">>, <<>>}

\* the request-scoped values are gone once the response is closed
ClearFeedback ==
    /\ request' = <<"", "">>
    /\ response' = NoResponse
    /\ assignee_cc_str' = <<>>
    /\ service_adviser_email' = <<>>
    /\ cc_list' = <<>>
    /\ cc_again' = <<>>
    /\ calls' = 0
    /\ received' = <<>>
    /\ content' = None
    /\ out' = <<>>

InitRelay ==
    /\ client \in {"None", "OpenAI"}
    /\ OUTLOOK_AVAILABLE = FALSE
    /\ pc = "idle"
    /\ request = <<"", "">>
    /\ response = NoResponse
    /\ NoFeedback /\ NoRelay /\ NoDirectory /\ NoMail

\* process_feedback up to `return Response(stream_with_context(generate()))`
ProcessFeedback ==
    /\ pc = "idle"
    /\ \E cc \in RelayCcInputs, adv \in RelayAdvisers :
         /\ assignee_cc_str' = cc
         /\ service_adviser_email' = adv
         /\ cc_list' = MergeCc(cc, adv)
    /\ cc_again' = <<>>
    /\ request' = <<"POST", "/process_feedback">>
    /\ response' = [status |-> 200, kind |-> "stream", body |-> <<>>]
    /\ pc' = "gen_start"
    /\ UNCHANGED <<client, OUTLOOK_AVAILABLE, relayVars, dirVars, mailVars>>

\* a slip: the `return` after the error message is missing, so the try block
\* runs with client = None and its AttributeError is reported as well
GenNoClientNoReturn ==
    /\ pc = "gen_start"
    /\ client = "None"
    /\ out' = out \o <<ConfigErrorText, ErrorFragment("'NoneType' object has no attribute 'chat'")>>
    /\ pc' = "gen_done"
    /\ UNCHANGED <<client, OUTLOOK_AVAILABLE, request, response, ccVars,
                   calls, received, content, dirVars, mailVars>>

\* lines 206-208
GenNoClient ==
    /\ pc = "gen_start"
    /\ client = "None"
    /\ out' = Append(out, ConfigErrorText)
    /\ pc' = "gen_done"
    /\ UNCHANGED <<client, OUTLOOK_AVAILABLE, request, response, ccVars,
                   calls, received, content, dirVars, mailVars>>

\* lines 210-215: create() returns the stream
GenCreate ==
    /\ pc = "gen_start"
    /\ client # "None"
    /\ calls' = calls + 1
    /\ pc' = "gen_loop"
    /\ UNCHANGED <<client, OUTLOOK_AVAILABLE, request, response, ccVars,
                   received, content, out, dirVars, mailVars>>

\* lines 210-215 and 221-222: create() raises
GenCreateRaise ==
    /\ pc = "gen_start"
    /\ client # "None"
    /\ calls' = calls + 1
    /\ \E e \in Exceptions : out' = Append(out, ErrorFragment(e))
    /\ pc' = "gen_failed"
    /\ UNCHANGED <<client, OUTLOOK_AVAILABLE, request, response, ccVars,
                   received, content, dirVars, mailVars>>

\* a slip: every chunk's content is yielded, empty or not
GenNextNoFilter ==
    /\ pc = "gen_loop"
    /\ Len(received) < MaxChunks
    /\ \E c \in Contents :
         /\ received' = Append(received, c)
         /\ content' = c
         /\ pc' = "gen_yield"
    /\ UNCHANGED <<client, OUTLOOK_AVAILABLE, request, response, ccVars,
                   calls, out, dirVars, mailVars>>

\* lines 217-219: the next chunk arrives
GenNext ==
    /\ pc = "gen_loop"
    /\ Len(received) < MaxChunks
    /\ \E c \in Contents :
         /\ received' = Append(received, c)
         /\ content' = c
         /\ pc' = IF Truthy(c) THEN "gen_yield" ELSE "gen_loop"
    /\ UNCHANGED <<client, OUTLOOK_AVAILABLE, request, response, ccVars,
                   calls, out, dirVars, mailVars>>

\* line 220: the fragment is handed to the caller
GenYield ==
    /\ pc = "gen_yield"
    /\ out' = Append(out, content)
    /\ pc' = "gen_loop"
    /\ UNCHANGED <<client, OUTLOOK_AVAILABLE, request, response, ccVars,
                   calls, received, content, dirVars, mailVars>>

\* line 217: the stream is exhausted
GenEnd ==
    /\ pc = "gen_loop"
    /\ pc' = "gen_done"
    /\ UNCHANGED <<client, OUTLOOK_AVAILABLE, request, response, ccVars,
                   relayVars, dirVars, mailVars>>

\* a slip: on an error the stream is opened again
GenRaiseRetry ==
    /\ pc = "gen_loop"
    /\ calls < 2
    /\ calls' = calls + 1
    /\ UNCHANGED <<client, OUTLOOK_AVAILABLE, pc, request, response, ccVars,
                   received, content, out, dirVars, mailVars>>

\* lines 217-222: reading the stream raises
GenRaise ==
    /\ pc = "gen_loop"
    /\ \E e \in Exceptions : out' = Append(out, ErrorFragment(e))
    /\ pc' = "gen_failed"
    /\ UNCHANGED <<client, OUTLOOK_AVAILABLE, request, response, ccVars,
                   calls, received, content, dirVars, mailVars>>

\* the generator returns and the response is closed
CloseStream ==
    /\ pc \in {"gen_done", "gen_failed"}
    /\ pc' = "idle"
    /\ ClearFeedback
    /\ UNCHANGED <<client, OUTLOOK_AVAILABLE, dirVars, mailVars>>

NextRelay ==
    \/ ProcessFeedback
    \/ GenNoClient
    \/ GenCreate
    \/ GenCreateRaise
    \/ GenNext
    \/ GenYield
    \/ GenEnd
    \/ GenRaise
    \/ CloseStream

SpecRelay == InitRelay /\ [][NextRelay]_vars

----------------------------------------------------------------------------
(* /open_outlook, lines 226-304, and the URL map *)

\* re.IGNORECASE: the pattern's literals match in either case
IsSubjectWord(t) == t \in {"Subject:", "SUBJECT:"}
IsStrongClose(t) == t \in {"</strong>", "</STRONG>"}
IsTerminator(t)  == t \in {"<br>", "<BR>", "</p>", "</P>"}
IsSpace(t)       == t = " "
\* what <[^>]+> matches
IsTag(t) ==
    IsStrongClose(t) \/ IsTerminator(t) \/ t \in {"<p>", "<strong>"}

BodyPieces == {"Subject:", "</strong>", "<br>", "</p>", " ", "T"}

ExampleBody ==
    <<"<p>", "<strong>", "Subject:", "</strong>", " ", "Test", "</p>",
      "<p>", "Body here", "</p>">>

UpperCaseBody ==
    <<"<p>", "<strong>", "SUBJECT:", "</STRONG>", "Test", " ", "<BR>", " ", "Body here">>

Bodies == SeqsUpTo(BodyPieces, MaxBodyLen) \cup {ExampleBody, UpperCaseBody}

DefaultSubject == <<"Customer Feedback Review">>

\* \s* : the first position at or after i that holds no blank
RECURSIVE SkipSpace(_, _)
SkipSpace(b, i) == IF i <= Len(b) /\ IsSpace(b[i]) THEN SkipSpace(b, i + 1) ELSE i

\* (.*?)(?:<br>|</p>) : the first terminator at or after i, 0 when there is none
RECURSIVE FindTerminator(_, _)
FindTerminator(b, i) ==
    IF i > Len(b) THEN 0
    ELSE IF IsTerminator(b[i]) THEN i
    ELSE FindTerminator(b, i + 1)

\* the pattern tried at position i: [start of group 1, position of the
\* terminator], or <<>> when it does not match there
MatchAt(b, i) ==
    IF i + 1 <= Len(b) /\ IsSubjectWord(b[i]) /\ IsStrongClose(b[i + 1])
    THEN LET g == SkipSpace(b, i + 2)
             t == FindTerminator(b, g)
         IN  IF t = 0 THEN <<>> ELSE <<g, t>>
    ELSE <<>>

\* subject_pattern.search(html_body): the leftmost position that matches
RECURSIVE Search(_, _)
Search(b, i) ==
    IF i > Len(b) THEN <<>>
    ELSE IF MatchAt(b, i) # <<>> THEN MatchAt(b, i)
    ELSE Search(b, i + 1)

\* re.sub(r'<[^>]+>', '', raw_subject)
RemoveTags(s) == SelectSeq(s, LAMBDA t : ~ IsTag(t))

\* a slip: the body is left as it came
ExtractSubjectKeepBody(b) ==
    LET m == Search(b, 1)
    IN  IF m = <<>> THEN [subject |-> DefaultSubject, html_body |-> b]
        ELSE [subject   |-> Strip(RemoveTags(SubSeq(b, m[1], m[2] - 1))),
              html_body |-> b]

\* lines 234-243
ExtractSubject(b) ==
    LET m == Search(b, 1)
    IN  IF m = <<>> THEN [subject |-> DefaultSubject, html_body |-> b]
        ELSE [subject   |-> Strip(RemoveTags(SubSeq(b, m[1], m[2] - 1))),
              html_body |-> Strip(SubSeq(b, m[2] + 1, Len(b)))]

\* the view functions registered with @app.route, lines 41-227
ViewRoutes ==
    {<<"GET", "/">>, <<"GET", "/api/departments">>, <<"GET", "/api/assignees">>,
     <<"GET", "/api/advisers">>, <<"POST", "/process_feedback">>,
     <<"POST", "/open_outlook">>}

\* line 37: static_url_path='' adds the rule /<path:filename>, which accepts
\* GET only, so every other path matches a rule, but for GET alone
StaticMethods == {"GET"}

\* what the .eml write and the OS handler may raise, as str(e)
EmlErrors == {"disk full", "xdg-open not found"}

\* the header lines written at 286-291
EmlHeaders(cc) ==
    <<"To">> \o (IF cc # "" THEN <<"Cc">> ELSE <<>>)
      \o <<"Subject", "X-Unsent", "Content-Type">>

JsonOk    == [success |-> TRUE, error |-> ""]
JsonErr(e) == [success |-> FALSE, error |-> e]

InitMail ==
    /\ client = "None"
    /\ OUTLOOK_AVAILABLE \in BOOLEAN
    /\ pc = "idle"
    /\ request = <<"", "">>
    /\ response = NoResponse
    /\ NoFeedback /\ NoRelay /\ NoDirectory /\ NoMail

\* lines 228-265: the fields are read, the subject is extracted
open_outlook ==
    /\ pc = "idle"
    /\ request' = <<"POST", "/open_outlook">>
    /\ \E b \in Bodies, cc \in {"", "c@x"} :
         /\ body_in' = b
         /\ cc_email' = cc
         /\ subject' = ExtractSubject(b).subject
         /\ html_body' = ExtractSubject(b).html_body
    /\ pc' = "method1"
    /\ UNCHANGED <<client, OUTLOOK_AVAILABLE, response, ccVars, relayVars,
                   dirVars, attempts, eml>>

\* a slip: the `return` of line 278 is missing
Method1DisplayNoReturn ==
    /\ pc = "method1"
    /\ OUTLOOK_AVAILABLE
    /\ attempts' = Append(attempts, [method |-> "outlook", ok |-> TRUE, error |-> ""])
    /\ pc' = "method2"
    /\ UNCHANGED <<client, OUTLOOK_AVAILABLE, request, response, ccVars, relayVars,
                   dirVars, body_in, cc_email, subject, html_body, eml>>

\* lines 268-278: Outlook displays the message
Method1Display ==
    /\ pc = "method1"
    /\ OUTLOOK_AVAILABLE
    /\ attempts' = Append(attempts, [method |-> "outlook", ok |-> TRUE, error |-> ""])
    /\ response' = [status |-> 200, kind |-> "json", body |-> JsonOk]
    /\ pc' = "responded"
    /\ UNCHANGED <<client, OUTLOOK_AVAILABLE, request, ccVars, relayVars,
                   dirVars, body_in, cc_email, subject, html_body, eml>>

\* a slip: the COM failure is answered with an error
Method1RaiseFatal ==
    /\ pc = "method1"
    /\ OUTLOOK_AVAILABLE
    /\ attempts' = Append(attempts, [method |-> "outlook", ok |-> FALSE, error |-> "com_error"])
    /\ response' = [status |-> 500, kind |-> "json", body |-> JsonErr("com_error")]
    /\ pc' = "responded"
    /\ UNCHANGED <<client, OUTLOOK_AVAILABLE, request, ccVars, relayVars,
                   dirVars, body_in, cc_email, subject, html_body, eml>>

\* lines 268-280: a COM call raises; the failure is printed
Method1Raise ==
    /\ pc = "method1"
    /\ OUTLOOK_AVAILABLE
    /\ attempts' = Append(attempts, [method |-> "outlook", ok |-> FALSE, error |-> "com_error"])
    /\ pc' = "method2"
    /\ UNCHANGED <<client, OUTLOOK_AVAILABLE, request, response, ccVars, relayVars,
                   dirVars, body_in, cc_email, subject, html_body, eml>>

\* line 268: the COM modules were not imported
Method1Skip ==
    /\ pc = "method1"
    /\ ~ OUTLOOK_AVAILABLE
    /\ pc' = "method2"
    /\ UNCHANGED <<client, OUTLOOK_AVAILABLE, request, response, ccVars, relayVars,
                   dirVars, mailVars>>

\* lines 283-301: the file is written and handed to the OS handler, whose
\* exit status is not looked at
Method2Open ==
    /\ pc = "method2"
    /\ attempts' = Append(attempts, [method |-> "eml", ok |-> TRUE, error |-> ""])
    /\ eml' = EmlHeaders(cc_email)
    /\ response' = [status |-> 200, kind |-> "json", body |-> JsonOk]
    /\ pc' = "responded"
    /\ UNCHANGED <<client, OUTLOOK_AVAILABLE, request, ccVars, relayVars,
                   dirVars, body_in, cc_email, subject, html_body>>

\* lines 283-304: the write or the handler raises
Method2Raise ==
    /\ pc = "method2"
    /\ \E e \in EmlErrors :
         /\ attempts' = Append(attempts, [method |-> "eml", ok |-> FALSE, error |-> e])
         /\ eml' = IF e = "disk full" THEN <<>> ELSE EmlHeaders(cc_email)
         /\ response' = [status |-> 500, kind |-> "json", body |-> JsonErr(e)]
    /\ pc' = "responded"
    /\ UNCHANGED <<client, OUTLOOK_AVAILABLE, request, ccVars, relayVars,
                   dirVars, body_in, cc_email, subject, html_body>>

\* a POST to a path no view function is registered for: the static rule
\* matches the path but not the method, and the URL map answers 405
post_unrouted ==
    /\ pc = "idle"
    /\ \E path \in {"/send_email"} :
         /\ <<"POST", path>> \notin ViewRoutes
         /\ "POST" \notin StaticMethods
         /\ request' = <<"POST", path>>
    /\ response' = [status |-> 405, kind |-> "html", body |-> <<>>]
    /\ pc' = "responded"
    /\ UNCHANGED <<client, OUTLOOK_AVAILABLE, ccVars, relayVars, dirVars, mailVars>>

\* the response is sent
MailDone ==
    /\ pc = "responded"
    /\ pc' = "idle"
    /\ request' = <<"", "">>
    /\ response' = NoResponse
    /\ body_in' = <<>>
    /\ cc_email' = ""
    /\ subject' = <<>>
    /\ html_body' = <<>>
    /\ attempts' = <<>>
    /\ eml' = <<>>
    /\ UNCHANGED <<client, OUTLOOK_AVAILABLE, ccVars, relayVars, dirVars>>

Next ==
    \/ open_outlook
    \/ Method1Display
    \/ Method1Raise
    \/ Method1Skip
    \/ Method2Open
    \/ Method2Raise
    \/ post_unrouted
    \/ MailDone

Spec == InitMail /\ [][Next]_vars

----------------------------------------------------------------------------
(* Properties of the directory store *)

Ascending(list) ==
    \A i, j \in 1..Len(list) : i < j => StrLess(list[i], list[j])

\* C7: the departments returned are in ascending order, without duplicates,
\* and are exactly the department names of the dataset; an absent file gives
\* the empty list with status 200.
C7_DepartmentsSortedUnique ==
    pc = "responded" /\ request = <<"GET", "/api/departments">> =>
        /\ response.status = 200
        /\ Ascending(response.body)
        /\ \A i, j \in 1..Len(response.body) :
              i # j => response.body[i] # response.body[j]
        /\ Range(response.body) = {staff.rows[i].Department : i \in 1..Len(staff.rows)}
        /\ ~ staff.exists => response.body = <<>>

C7_Witness ==
    /\ pc = "responded" /\ request = <<"GET", "/api/departments">>
    /\ Len(staff.rows) = 3
    /\ staff.rows[1].Department = <<"S", "e">>
    /\ staff.rows[2].Department = <<"S">>
    /\ staff.rows[3].Department = <<"S", "e">>
    /\ response.body = << <<"S">>, <<"S", "e">> >>

MatchingRows(d) == {i \in 1..Len(staff.rows) : staff.rows[i].Department = d}

\* C8: the assignees returned are exactly the rows whose department equals
\* the argument, in dataset order, each as {name, email, cc} with cc empty
\* when the file has no CC column; a department no row has (a missing
\* argument and an absent file included) gives the empty list, status 200.
C8_AssigneesExactMatch ==
    pc = "responded" /\ request = <<"GET", "/api/assignees">> =>
        LET hits == MatchingRows(dept)
            body == response.body
            Nth(k) == CHOOSE i \in hits : Cardinality({j \in hits : j <= i}) = k
        IN  /\ response.status = 200
            /\ Len(body) = Cardinality(hits)
            /\ \A k \in 1..Len(body) :
                  /\ body[k].name = staff.rows[Nth(k)].Name
                  /\ body[k].email = staff.rows[Nth(k)].Email
                  /\ body[k].cc = IF "CC_Emails" \in DOMAIN staff.rows[Nth(k)]
                                  THEN staff.rows[Nth(k)].CC_Emails ELSE ""
            /\ hits = {} => body = <<>>

C8_Witness ==
    /\ pc = "responded" /\ request = <<"GET", "/api/assignees">>
    /\ dept = <<"S", "e">>
    /\ Len(staff.rows) = 3
    /\ "CC_Emails" \notin DOMAIN staff.rows[1]
    /\ staff.rows[2].Department = <<"S", "a">>
    /\ Len(response.body) = 2
    /\ response.body[1].name = "Bob" /\ response.body[2].name = "Ann"
    /\ response.body[1].cc = ""

----------------------------------------------------------------------------
(* Properties of the CC merge *)

\* The entries of a CC string, stated by position: the text between two
\* neighbouring separators, from its first to its last non-blank character.
Seps(s) == {0} \cup {i \in 1..Len(s) : s[i] = ";"} \cup {Len(s) + 1}

NextSep(s, p) == CHOOSE q \in Seps(s) : q > p /\ \A r \in Seps(s) : r > p => q <= r

Inked(s, p) == {i \in (p + 1)..(NextSep(s, p) - 1) : s[i] # " "}

Entry(s, p) ==
    LET ink == Inked(s, p)
        lo  == CHOOSE i \in ink : \A j \in ink : i <= j
        hi  == CHOOSE i \in ink : \A j \in ink : j <= i
    IN  SubSeq(s, lo, hi)

EntryStarts(s) == {p \in Seps(s) \ {Len(s) + 1} : Inked(s, p) # {}}

Entries(s) ==
    [k \in 1..Cardinality(EntryStarts(s)) |->
        Entry(s, CHOOSE p \in EntryStarts(s) :
                    Cardinality({q \in EntryStarts(s) : q <= p}) = k)]

Occurrences(list, x) == Cardinality({i \in 1..Len(list) : list[i] = x})

\* C6: the merged list is the entries of the CC string (split on ';', trimmed,
\* empty ones dropped) with the adviser email appended only if it is
\* non-empty and equal to no entry; an adviser email already in the list
\* leaves it unchanged, and merging the same adviser email into the result
\* again adds nothing.
C6_CcMergeIdempotent ==
    pc \in {"cc_merged", "cc_again"} =>
        LET base == Entries(assignee_cc_str)
            adv  == service_adviser_email
        IN  /\ cc_list = IF adv # <<>> /\ \A i \in 1..Len(base) : base[i] # adv
                          THEN Append(base, adv) ELSE base
            /\ Occurrences(base, adv) > 0 => cc_list = base
            /\ adv # <<>> /\ Occurrences(base, adv) = 0 => Occurrences(cc_list, adv) = 1
            /\ pc = "cc_again" => cc_again = cc_list

C6_Witness ==
    /\ pc = "cc_again"
    /\ assignee_cc_str = <<"a", ";", "b">>
    /\ service_adviser_email = <<"b">>
    /\ cc_list = << <<"a">>, <<"b">> >>
    /\ cc_again = cc_list

----------------------------------------------------------------------------
(* Properties of the mail dispatcher *)

Priority(m) == IF m = "outlook" THEN 1 ELSE 2

Dispatching ==
    request = <<"POST", "/open_outlook">> /\ pc \in {"method1", "method2", "responded"}

\* C4: the delivery methods are tried in priority order and the first
\* success ends the request: Outlook is tried first, when and only when the
\* COM modules are available; after its success no file is written; after
\* its failure the .eml method is tried in the same request; no method is
\* tried before an available one of higher priority.
C4_StrategyOrder ==
    Dispatching =>
        /\ \A i \in 1..Len(attempts) :
              /\ i < Len(attempts) => ~ attempts[i].ok
              /\ i < Len(attempts) =>
                    Priority(attempts[i].method) < Priority(attempts[i + 1].method)
              /\ attempts[i].method = "outlook" => OUTLOOK_AVAILABLE /\ i = 1
        /\ OUTLOOK_AVAILABLE /\ pc \in {"method2", "responded"} =>
              attempts # <<>> /\ attempts[1].method = "outlook"
        /\ pc = "method2" => \A i \in 1..Len(attempts) : ~ attempts[i].ok
        /\ pc = "responded" /\ attempts[1].method = "outlook" /\ ~ attempts[1].ok =>
              Len(attempts) = 2 /\ attempts[2].method = "eml"
        /\ eml # <<>> => attempts # <<>> /\ attempts[Len(attempts)].method = "eml"

C4_Witness ==
    /\ Dispatching /\ pc = "responded"
    /\ Len(attempts) = 2
    /\ attempts[1].method = "outlook" /\ ~ attempts[1].ok
    /\ attempts[2].method = "eml" /\ attempts[2].ok

\* C5: a POST to /send_email with no SMTP settings is answered with a
\* structured configuration failure: status 500, success false, an error
\* text.
C5_SendEmailConfigFailure ==
    pc = "responded" /\ request = <<"POST", "/send_email">> =>
        /\ response.status = 500
        /\ response.kind = "json"
        /\ response.body.success = FALSE
        /\ response.body.error # ""

\* first and last position of s that hold no blank
Trim(s) ==
    LET ink == {i \in 1..Len(s) : ~ IsSpace(s[i])}
    IN  IF ink = {} THEN <<>>
        ELSE SubSeq(s, CHOOSE i \in ink : \A j \in ink : i <= j,
                       CHOOSE i \in ink : \A j \in ink : j <= i)

Least(S) == CHOOSE i \in S : \A j \in S : i <= j

\* positions of the marker as the code's pattern has it: the word
\* "Subject:" directly followed by </strong>, in either case
Markers(b) ==
    {i \in 1..(Len(b) - 1) : IsSubjectWord(b[i]) /\ IsStrongClose(b[i + 1])}

TerminatorsAfter(b, i) == {t \in (i + 1)..Len(b) : IsTerminator(b[t])}

\* C9 as amended: when the body holds "Subject:</strong>" (in either case)
\* with a <br> or </p> somewhere after it, the subject is the text between
\* the first such marker and the first terminator after it, with tags
\* removed and blanks trimmed, and the body is what follows that terminator
\* with the blanks at its ends trimmed; otherwise the subject is the default
\* and the body is kept as it came.
C9_SubjectExtraction ==
    Dispatching =>
        LET b == body_in
            found == Markers(b) # {} /\ TerminatorsAfter(b, Least(Markers(b)) + 1) # {}
        IN  IF found
            THEN LET i == Least(Markers(b))
                     t == Least(TerminatorsAfter(b, i + 1))
                 IN  /\ subject = Trim(SelectSeq(SubSeq(b, i + 2, t - 1),
                                                 LAMBDA x : ~ IsTag(x)))
                     /\ html_body = Trim(SubSeq(b, t + 1, Len(b)))
            ELSE subject = DefaultSubject /\ html_body = b

C9_Witness ==
    /\ Dispatching
    /\ body_in = ExampleBody
    /\ subject = <<"Test">>
    /\ html_body = <<"<p>", "Body here", "</p>">>

\* C9 as stated: a body that holds the word "Subject:" gives the text from
\* the first such word to the next <br> or </p>, tags removed and trimmed,
\* as the subject, and exactly what follows that terminator as the body;
\* a body without the word keeps the default subject and is kept intact.
C9_AsStated ==
    Dispatching =>
        LET b == body_in
            words == {i \in 1..Len(b) : IsSubjectWord(b[i])}
        IN  IF words # {}
            THEN /\ TerminatorsAfter(b, Least(words)) # {}
                 /\ LET i == Least(words)
                        t == Least(TerminatorsAfter(b, i))
                    IN  /\ subject = Trim(SelectSeq(SubSeq(b, i + 1, t - 1),
                                                    LAMBDA x : ~ IsTag(x)))
                        /\ html_body = SubSeq(b, t + 1, Len(b))
            ELSE subject = DefaultSubject /\ html_body = b

\* C10: a request ends with one response, which matches what the methods
\* did: success exactly when a method that was tried succeeded; the
\* structured failure (status 500, success false, the error's text) exactly
\* when the .eml method failed after every earlier one had failed; a failure
\* of Outlook alone never ends the request, and every response is the view
\* function's own JSON.
C10_OutcomeMatchesStrategies ==
    Dispatching =>
        LET anyOk   == \E i \in 1..Len(attempts) : attempts[i].ok
            last    == attempts[Len(attempts)]
            allFail == /\ attempts # <<>>
                       /\ \A i \in 1..Len(attempts) : ~ attempts[i].ok
                       /\ last.method = "eml"
        IN  /\ pc = "responded" =>
                 /\ response.kind = "json"
                 /\ response.status \in {200, 500}
                 /\ (response.status = 200 /\ response.body.success) <=> anyOk
                 /\ (response.status = 500 /\ ~ response.body.success) <=> allFail
                 /\ response.status = 500 => response.body.error = last.error
                 /\ anyOk # allFail
            /\ pc # "responded" => response = NoResponse

C10_Witness ==
    /\ Dispatching /\ pc = "responded"
    /\ Len(attempts) = 2
    /\ ~ attempts[1].ok /\ ~ attempts[2].ok
    /\ response.status = 500
    /\ response.body = [success |-> FALSE, error |-> "xdg-open not found"]

----------------------------------------------------------------------------
(* Properties of the relay *)

RECURSIVE Concat(_)
Concat(s) ==
    IF s = <<>> THEN ""
    ELSE (IF Head(s) = None THEN "" ELSE Head(s)) \o Concat(Tail(s))

IsText(c) == c \in Texts

\* C1: with no client configured, the relay yields exactly one fragment, the
\* fixed configuration-error text, then ends; the provider is never called
\* and nothing is read from it.
C1_NoCredentialSingleError ==
    client = "None" =>
        /\ calls = 0
        /\ received = <<>>
        /\ pc \in {"idle", "gen_start", "gen_done"}
        /\ pc \in {"idle", "gen_start"} => out = <<>>
        /\ pc = "gen_done" => out = <<ConfigErrorText>>

C1_Witness ==
    client = "None" /\ pc = "gen_done" /\ out = <<ConfigErrorText>>

RelayInOrder ==
    client # "None" =>
        /\ pc \in {"gen_loop", "gen_done"} =>
              /\ out = SelectSeq(received, IsText)
              /\ Concat(out) = Concat(received)
        /\ pc = "gen_yield" =>
              /\ received # <<>>
              /\ content = received[Len(received)]
              /\ IsText(content)
              /\ Append(out, content) = SelectSeq(received, IsText)

\* a chunk is read only when every text fragment read before it was yielded
ReadAfterYield ==
    Len(received') > Len(received) => out = SelectSeq(received, IsText)

\* a step yields at most one fragment, after those already yielded, and it is
\* the one in hand
YieldInHand ==
    pc = "gen_yield" /\ out' # out => out' = Append(out, content)

\* C2: with a client and no error, the fragments yielded are exactly the text
\* fragments read from the provider, in arrival order (a chunk whose content
\* is None or empty carries no text), the bytes yielded are the bytes
\* received, and a fragment read is yielded before the next chunk is read:
\* while one is in hand it is the last chunk read and the only one not yet
\* yielded, and no chunk is read until it has been yielded.
C2_RelayInOrder ==
    /\ []RelayInOrder
    /\ [][ReadAfterYield /\ YieldInHand]_vars

C2_Witness ==
    /\ client # "None"
    /\ pc = "gen_done"
    /\ received = <<"b", "", "a">>
    /\ out = <<"b", "a">>

IsPrefix(s, t) == Len(s) <= Len(t) /\ SubSeq(t, 1, Len(s)) = s

ErrorAfterPartial ==
    /\ calls <= 1
    /\ pc = "gen_failed" =>
          /\ calls = 1
          /\ \E e \in Exceptions :
                out = Append(SelectSeq(received, IsText), ErrorFragment(e))

\* while the request is served, what was yielded stays yielded
NotRetracted == pc' # "idle" => IsPrefix(out, out')

\* once the error fragment is out, the only step left closes the response
EndsAfterError == pc = "gen_failed" => pc' = "idle"

\* C3: when the provider call fails after k fragments were delivered, the
\* output is those k fragments followed by exactly one error fragment and
\* the relay has ended; fragments already delivered are not retracted, the
\* provider call is made at most once per request, and nothing is yielded
\* after the error fragment.
C3_ErrorAfterPartial ==
    /\ []ErrorAfterPartial
    /\ [][NotRetracted /\ EndsAfterError]_vars

C3_Witness ==
    /\ pc = "gen_failed"
    /\ Len(out) = 3
    /\ out[1] = "a" /\ out[2] = "b" /\ out[3] = ErrorFragment("quota")

====
